---- MODULE Spec2Model ----
(***************************************************************************)
(* SourceProviderCodeCache (ZombieBox): the generated-code cache that      *)
(* cleans its output root, writes the base application files, the files of *)
(* every extension and the defines module, keeps a registry of the files   *)
(* it wrote and notifies observers of every write.                         *)
(*                                                                         *)
(* Representation.  A file name is a triple <<first character, middle,     *)
(* extension>>, so that the two inspections the code makes of a name,      *)
(* charAt(0) and the /\.js$/ suffix, are computed and not looked up.  A     *)
(* path is a sequence of file names; an absolute path starts at "/".       *)
(* The disk is a set of directories and a function from file paths to      *)
(* contents.  Rendered text is the pair of template name and context.      *)
(***************************************************************************)
EXTENDS Integers, Sequences, FiniteSets, TLC

\* ------------------------------------------------------------------ bounds
\* number of aliased input sources of the code source
NumSources == 3
\* longest platform list of PlatformSpec
MaxPlatforms == 4
\* longest array among the define values of DefineSpec
MaxArrayLen == 2
\* most filesystem calls that succeed before the one that throws, in FailSpec
MaxFailAt == 12

\* ------------------------------------------------------------------- names
Name(first, middle, ext) == <<first, middle, ext>>

DOT == Name(".", "", "")
DOTDOT == Name(".", ".", "")

BaseApplicationJs == Name("b", "ase-application", ".js")
AppJs == Name("a", "pp", ".js")
PackageInfoJs == Name("p", "ackage-info", ".js")
DefineJs == Name("d", "efine", ".js")

BaseApplicationTpl == "base-application.js.tpl"
AppTpl == "app.js.tpl"
PackageInfoTpl == "package-info.js.tpl"

\* ISourceProvider.EVENT_CHANGED and ISourceProvider.EVENT_ANY
EVENT_CHANGED == "changed"
EVENT_ANY == "any"

\* this._root: pathHelper.resolveAbsolutePath(buildConfig.generatedCode)
Root == <<Name("g", "enerated", "")>>

\* buildConfig.project, resolved by the path helper
ProjectName == Name("m", "y-app", "")
ProjectSrc == <<Name("p", "roject", ""), Name("s", "rc", "")>>
ProjectEntry == <<Name("p", "roject", ""), Name("s", "rc", ""), Name("m", "ain", ".js")>>

\* this._packageJson
PackageJson == [name |-> "my-app", version |-> "1.0.0"]

\* ------------------------------------------------------------------- paths
Last(seq) == seq[Len(seq)]
Front(seq) == SubSeq(seq, 1, Len(seq) - 1)
Range(seq) == {seq[i] : i \in 1..Len(seq)}
IsPrefix(p, q) == Len(p) <= Len(q) /\ SubSeq(q, 1, Len(p)) = p

\* path.normalize over segments: "." is dropped, ".." removes the segment
\* before it; above the start, ".." is dropped in an absolute path and kept
\* in a relative one
RECURSIVE NormalizeSegs(_, _, _)
NormalizeSegs(segs, acc, isAbsolute) ==
  IF segs = <<>> THEN acc
  ELSE LET h == Head(segs) IN
    IF h = DOT THEN NormalizeSegs(Tail(segs), acc, isAbsolute)
    ELSE IF h = DOTDOT THEN
      IF acc # <<>> /\ Last(acc) # DOTDOT
      THEN NormalizeSegs(Tail(segs), Front(acc), isAbsolute)
      ELSE IF isAbsolute
           THEN NormalizeSegs(Tail(segs), acc, isAbsolute)
           ELSE NormalizeSegs(Tail(segs), Append(acc, DOTDOT), isAbsolute)
    ELSE NormalizeSegs(Tail(segs), Append(acc, h), isAbsolute)

\* path.join(absolute, relative) and path.join(relative, relative)
JoinAbs(base, rel) == NormalizeSegs(base \o rel, <<>>, TRUE)
JoinRel(base, rel) == NormalizeSegs(base \o rel, <<>>, FALSE)

\* path.dirname
Dirname(p) == Front(p)

RECURSIVE CommonPrefixLen(_, _)
CommonPrefixLen(p, q) ==
  IF p = <<>> \/ q = <<>> \/ Head(p) # Head(q) THEN 0
  ELSE 1 + CommonPrefixLen(Tail(p), Tail(q))

\* path.relative(from, to) of two absolute paths
Relative(from, to) ==
  LET n == CommonPrefixLen(from, to) IN
    [i \in 1..(Len(from) - n) |-> DOTDOT] \o SubSeq(to, n + 1, Len(to))

\* mainPath.replace(/\.js$/, '')
StripJs(p) ==
  IF p # <<>> /\ Last(p)[3] = ".js"
  THEN [p EXCEPT ![Len(p)] = Name(Last(p)[1], Last(p)[2], "")]
  ELSE p

\* a test of the second character instead of the first
IsHiddenSecondChar(filename) == filename[2] = "."

\* filename.charAt(0) === '.'
IsHidden(filename) == filename[1] = "."

\* templateHelper.render(template, context): the rendered text
Render(template, context) == <<template, context>>

\* a text an extension supplies
Text(body) == <<"text", body>>

\* -------------------------------------------------------------------- state
VARIABLES
  dirs,          \* disk: the directories (absolute paths)
  files,         \* disk: file path -> content
  _files,        \* this._files: the written-file registry
  log,           \* the calls, filesystem operations and emits of the last operation
  seen,          \* what an observer found at every emit of the last operation
  lastOp,        \* the last public operation or notification that ran
  written,       \* history: paths written since the last clean() call
  platforms,     \* addonLoader.getPlatforms() names
  extensions,    \* addonLoader.getExtensions(): [name, sources] each
  define,        \* buildConfig.define
  sourceState,   \* state of every aliased source's ready() promise
  reacted,       \* whether Promise.all has processed a source's settlement
  remaining,     \* Promise.all's count of elements not yet fulfilled
  readyPromise   \* this._readyPromise

vars == <<dirs, files, _files, log, seen, lastOp, written, platforms, extensions,
          define, sourceState, reacted, remaining, readyPromise>>

cacheVars == <<dirs, files, _files, log, seen, lastOp, written>>
configVars == <<platforms, define>>
readyVars == <<sourceState, reacted, remaining, readyPromise>>

\* no observer reacts to a notification
NoObserver == [armed |-> FALSE, path |-> <<>>, ext |-> 0, sources |-> <<>>]

\* the filesystem never fails
NeverFails == -1

\* the part of the state the cache's methods read and change, at the start
\* of a call: thrown says that an exception is propagating, failAt counts
\* the filesystem operations left before the one that throws, observer is
\* the reaction of a listener of EVENT_CHANGED
Cur == [dirs |-> dirs, files |-> files, reg |-> _files, log |-> <<>>, seen |-> <<>>,
        platforms |-> platforms, extensions |-> extensions, define |-> define,
        thrown |-> FALSE, failAt |-> NeverFails, observer |-> NoObserver]

Event(op, name, args) == [op |-> op, name |-> name, args |-> args]

\* nothing of a call runs once an exception propagates
Logged(s, e) == IF s.thrown THEN s ELSE [s EXCEPT !.log = Append(s.log, e)]

\* a filesystem operation: it throws, or it leaves the disk of after
FsCall(s, after, e) ==
  IF s.thrown THEN s
  ELSE IF s.failAt = 0
       THEN [s EXCEPT !.thrown = TRUE, !.failAt = NeverFails,
                      !.log = Append(@, Event("throw", e.op, e.args))]
       ELSE Logged([after EXCEPT !.failAt = IF @ > 0 THEN @ - 1 ELSE @], e)

\* ---------------------------------------------------------------------- disk
\* fs.readdirSync(dir): the names of the direct children
Readdir(s, dir) ==
  {p[Len(p)] : p \in {q \in s.dirs \cup DOMAIN s.files :
                        Len(q) = Len(dir) + 1 /\ IsPrefix(dir, q)}}

\* fs.unlinkSync(src)
UnlinkSync(s, src) ==
  FsCall(s, [s EXCEPT !.files = [p \in DOMAIN s.files \ {src} |-> s.files[p]]],
         Event("unlinkSync", "fs", <<src>>))

\* fse.removeSync(src): the whole tree
RemoveSync(s, src) ==
  FsCall(s, [s EXCEPT
            !.dirs = {d \in s.dirs : ~IsPrefix(src, d)},
            !.files = [p \in {q \in DOMAIN s.files : ~IsPrefix(src, q)} |-> s.files[p]]],
         Event("removeSync", "fse", <<src>>))

\* fse.ensureDirSync(dir): the directory and every missing ancestor
EnsureDirSync(s, dir) ==
  FsCall(s, [s EXCEPT !.dirs = s.dirs \cup {SubSeq(dir, 1, n) : n \in 1..Len(dir)}],
         Event("ensureDirSync", "fse", <<dir>>))

\* a write that leaves an existing file as it is
WriteFileSyncExclusive(s, filename, content) ==
  FsCall(s, [s EXCEPT !.files = [p \in DOMAIN s.files \cup {filename} |->
                                IF p \in DOMAIN s.files THEN s.files[p] ELSE content]],
         Event("writeFileSync", "fs", <<filename, content>>))

\* fs.writeFileSync(filename, content, 'utf-8'): create or overwrite
WriteFileSync(s, filename, content) ==
  FsCall(s, [s EXCEPT !.files = [p \in DOMAIN s.files \cup {filename} |->
                                IF p = filename THEN content ELSE s.files[p]]],
         Event("writeFileSync", "fs", <<filename, content>>))

\* what an observer finds at a notification: the notified path's content on
\* disk, if any, and whether this._files holds the path
Observed(s, event, args) ==
  LET filename == args[Len(args)] IN
    [event |-> event, path |-> filename,
     content |-> IF filename \in DOMAIN s.files THEN <<s.files[filename]>> ELSE <<>>,
     registered |-> filename \in Range(s.reg)]

\* this.emit(event, ...args): the listeners run before emit returns; when the
\* observer reacts, its extension emits EVENT_GENERATED right there
RECURSIVE OnGenerated(_, _, _)
Emit(s, event, args) ==
  IF s.thrown THEN s
  ELSE LET s1 == [Logged(s, Event("emit", event, args)) EXCEPT
                    !.seen = Append(@, Observed(s, event, args))]
       IN IF s1.observer.armed /\ event = EVENT_CHANGED /\ args[1] = s1.observer.path
          THEN OnGenerated([s1 EXCEPT !.observer.armed = FALSE,
                                      !.extensions[s1.observer.ext].sources =
                                         s1.observer.sources],
                           s1.observer.ext, s1.observer.sources)
          ELSE s1

\* ------------------------------------------------------------ _writeFile
\* _writeFile that notifies before it writes and registers
WriteFileNotifyFirst(s, src, content) ==
  LET filename == JoinAbs(Root, src)
      dir == Dirname(filename)
      s1 == Emit(s, EVENT_CHANGED, <<filename>>)
      s2 == Emit(s1, EVENT_ANY, <<EVENT_CHANGED, filename>>)
      s3 == IF dir \notin s2.dirs THEN EnsureDirSync(s2, dir) ELSE s2
      s4 == WriteFileSync(s3, filename, content)
  IN IF ~s4.thrown /\ filename \notin Range(s4.reg)
     THEN [s4 EXCEPT !.reg = Append(s4.reg, filename)]
     ELSE s4

\* _writeFile that registers the path before it writes the file
WriteFilePushFirst(s, src, content) ==
  LET filename == JoinAbs(Root, src)
      dir == Dirname(filename)
      s1 == IF dir \notin s.dirs THEN EnsureDirSync(s, dir) ELSE s
      s2 == IF ~s1.thrown /\ filename \notin Range(s1.reg)
            THEN [s1 EXCEPT !.reg = Append(s1.reg, filename)]
            ELSE s1
      s3 == WriteFileSync(s2, filename, content)
      s4 == Emit(s3, EVENT_CHANGED, <<filename>>)
  IN Emit(s4, EVENT_ANY, <<EVENT_CHANGED, filename>>)

\* _writeFile without the includes() test: every write is pushed
WriteFileAlwaysPush(s, src, content) ==
  LET filename == JoinAbs(Root, src)
      dir == Dirname(filename)
      s1 == IF dir \notin s.dirs THEN EnsureDirSync(s, dir) ELSE s
      s2 == WriteFileSync(s1, filename, content)
      s3 == [s2 EXCEPT !.reg = Append(s2.reg, filename)]
      s4 == Emit(s3, EVENT_CHANGED, <<filename>>)
  IN Emit(s4, EVENT_ANY, <<EVENT_CHANGED, filename>>)

\* _writeFile with the two emits in the other order
WriteFileAnyFirst(s, src, content) ==
  LET filename == JoinAbs(Root, src)
      dir == Dirname(filename)
      s1 == IF dir \notin s.dirs THEN EnsureDirSync(s, dir) ELSE s
      s2 == WriteFileSync(s1, filename, content)
      s3 == IF ~s2.thrown /\ filename \notin Range(s2.reg)
            THEN [s2 EXCEPT !.reg = Append(s2.reg, filename)]
            ELSE s2
      s4 == Emit(s3, EVENT_ANY, <<EVENT_CHANGED, filename>>)
  IN Emit(s4, EVENT_CHANGED, <<filename>>)

WriteFile(s, src, content) ==
  LET filename == JoinAbs(Root, src)
      dir == Dirname(filename)
      s1 == IF dir \notin s.dirs THEN EnsureDirSync(s, dir) ELSE s
      s2 == WriteFileSync(s1, filename, content)
      s3 == IF ~s2.thrown /\ filename \notin Range(s2.reg)
            THEN [s2 EXCEPT !.reg = Append(s2.reg, filename)]
            ELSE s2
      s4 == Emit(s3, EVENT_CHANGED, <<filename>>)
  IN Emit(s4, EVENT_ANY, <<EVENT_CHANGED, filename>>)

\* ----------------------------------------------------------------- clean
\* files.forEach(...) of clean(): the entries in the order readdirSync gave
RECURSIVE CleanEntries(_, _)
CleanEntries(s, names) ==
  IF names = {} THEN s
  ELSE LET filename == CHOOSE n \in names : TRUE
           src == JoinAbs(Root, <<filename>>)
           s1 == IF IsHidden(filename) THEN s
                 ELSE IF src \in DOMAIN s.files
                      THEN UnlinkSync(s, src)
                      ELSE RemoveSync(s, src)
       IN CleanEntries(s1, names \ {filename})

\* clean() that creates a missing output root instead of returning
CleanCreatesRoot(s) ==
  LET s0 == Logged(s, Event("call", "clean", <<>>))
      s1 == IF Root \notin s0.dirs THEN EnsureDirSync(s0, Root) ELSE s0
  IN [CleanEntries(s1, Readdir(s1, Root)) EXCEPT !.reg = <<>>]

\* clean() without the reset of this._files
CleanNoReset(s) ==
  LET s0 == Logged(s, Event("call", "clean", <<>>)) IN
    IF Root \notin s0.dirs THEN s0
    ELSE CleanEntries(s0, Readdir(s0, Root))

Clean(s) ==
  LET s0 == Logged(s, Event("call", "clean", <<>>)) IN
    IF Root \notin s0.dirs THEN s0
    ELSE LET s1 == CleanEntries(s0, Readdir(s0, Root)) IN
           IF s1.thrown THEN s1 ELSE [s1 EXCEPT !.reg = <<>>]

\* ------------------------------------------------------- generateBaseApp
\* "pc" pushed to the end without the splice
PcLastNoSplice(platformNames) ==
  IF "pc" \in Range(platformNames) THEN Append(platformNames, "pc") ELSE platformNames

\* lines 119-122: "pc" is moved to the end of the platform list
PcLast(platformNames) ==
  IF "pc" \in Range(platformNames)
  THEN LET i == CHOOSE k \in 1..Len(platformNames) :
                  /\ platformNames[k] = "pc"
                  /\ \A j \in 1..(k - 1) : platformNames[j] # "pc"
       IN SubSeq(platformNames, 1, i - 1)
            \o SubSeq(platformNames, i + 1, Len(platformNames))
            \o <<"pc">>
  ELSE platformNames

\* lines 131-137
MainPath == JoinRel(<<ProjectName>>, Relative(ProjectSrc, ProjectEntry))

\* generateBaseApp() pushing "pc" onto the addon loader's own list: no
\* copy by map(), no splice
GenerateBaseAppInPlace(s) ==
  LET s0 == Logged([s EXCEPT !.platforms =
                      IF "pc" \in Range(@) THEN Append(@, "pc") ELSE @],
                   Event("call", "generateBaseApp", <<>>))
      s1 == WriteFile(s0, <<BaseApplicationJs>>,
                      Render(BaseApplicationTpl, [platforms |-> s0.platforms]))
      s2 == WriteFile(s1, <<AppJs>>, Render(AppTpl, [path |-> StripJs(MainPath)]))
  IN WriteFile(s2, <<PackageInfoJs>>, Render(PackageInfoTpl, [config |-> PackageJson]))

GenerateBaseApp(s) ==
  LET s0 == Logged(s, Event("call", "generateBaseApp", <<>>))
      s1 == WriteFile(s0, <<BaseApplicationJs>>,
                      Render(BaseApplicationTpl, [platforms |-> PcLast(s0.platforms)]))
      s2 == WriteFile(s1, <<AppJs>>, Render(AppTpl, [path |-> StripJs(MainPath)]))
  IN WriteFile(s2, <<PackageInfoJs>>, Render(PackageInfoTpl, [config |-> PackageJson]))

\* ------------------------------------------------ generateExtensionsCode
\* Object.assign(result, {[key]: value}): a present key keeps its place
Assign(object, key, value) ==
  IF \E i \in 1..Len(object) : object[i][1] = key
  THEN [i \in 1..Len(object) |->
          IF object[i][1] = key THEN <<key, value>> ELSE object[i]]
  ELSE Append(object, <<key, value>>)

RECURSIVE ResolveReduce(_, _, _)
ResolveReduce(addonName, sources, result) ==
  IF sources = <<>> THEN result
  ELSE ResolveReduce(addonName, Tail(sources),
         Assign(result, JoinRel(<<addonName>>, Head(sources)[1]), Head(sources)[2]))

\* _resolveAddonRelativeSources without the addon's name in front
ResolveWithoutName(addonName, sources) == sources

ResolveAddonRelativeSources(addonName, sources) ==
  ResolveReduce(addonName, sources, <<>>)

RECURSIVE WriteSources(_, _)
WriteSources(s, sources) ==
  IF sources = <<>> THEN s
  ELSE WriteSources(WriteFile(s, Head(sources)[1], Head(sources)[2]), Tail(sources))

RECURSIVE ForEachExtension(_, _)
ForEachExtension(s, exts) ==
  IF exts = <<>> THEN s
  ELSE ForEachExtension(
         WriteSources(s, ResolveAddonRelativeSources(Head(exts).name, Head(exts).sources)),
         Tail(exts))

GenerateExtensionsCode(s) ==
  ForEachExtension(Logged(s, Event("call", "generateExtensionsCode", <<>>)), s.extensions)

\* -------------------------------------------------------- generateDefines
\* A define value is a tagged tuple: <<"number", 1>>, <<"string", "x">>,
\* <<"boolean", TRUE>>, <<"null">>, <<"undefined">>, <<"function", text>>,
\* <<"array", elements>>, <<"object", <<key, value>> pairs>>.
\* A text is the sequence of its lines.
Num(n) == <<"number", n>>
Str(x) == <<"string", x>>
Bool(b) == <<"boolean", b>>
Null == <<"null">>
Fn(text) == <<"function", text>>
Arr(elements) == <<"array", elements>>
Obj(members) == <<"object", members>>

\* typeof value
TypeOf(value) ==
  IF value[1] \in {"null", "array", "object"} THEN "object" ELSE value[1]

RECURSIVE JoinStr(_, _)
JoinStr(strs, sep) ==
  IF strs = <<>> THEN ""
  ELSE IF Len(strs) = 1 THEN strs[1]
  ELSE strs[1] \o sep \o JoinStr(Tail(strs), sep)

\* Array.from(new Set(array)): first occurrences, in order
RECURSIVE Dedup(_)
Dedup(seq) ==
  IF seq = <<>> THEN <<>>
  ELSE LET init == Dedup(Front(seq)) IN
         IF Last(seq) \in Range(init) THEN init ELSE Append(init, Last(seq))

RECURSIVE getGCCType(_)
\* getArrayContentsType without the test for an empty array
getArrayContentsTypeNoEmpty(array) ==
  JoinStr(Dedup([i \in 1..Len(array) |-> getGCCType(array[i])]), "|")

\* getArrayContentsType joining the element types without the Set
getArrayContentsTypeNoSet(array) ==
  IF Len(array) = 0 THEN "*"
  ELSE JoinStr([i \in 1..Len(array) |-> getGCCType(array[i])], "|")

getArrayContentsType(array) ==
  IF Len(array) = 0 THEN "*"
  ELSE JoinStr(Dedup([i \in 1..Len(array) |-> getGCCType(array[i])]), "|")

getGCCType(value) ==
  LET jsType == TypeOf(value) IN
    IF jsType = "function" THEN "Function"
    ELSE IF jsType # "object" THEN jsType
    ELSE IF value[1] = "null" THEN "null"
    ELSE IF value[1] = "array" THEN "Array<" \o getArrayContentsType(value[2]) \o ">"
    ELSE "Object"

printTypeTag(type) ==
  IF type = "Object" THEN "@struct" ELSE "@const {" \o type \o "}"

printJsdoc(tags) ==
  <<"/**">> \o [i \in 1..Len(tags) |-> " * " \o tags[i]] \o <<" */", "">>

indent(text) == [i \in 1..Len(text) |-> "\t" \o text[i]]

\* string concatenation of two texts
Cat(a, b) == Front(a) \o <<Last(a) \o Head(b)>> \o Tail(b)

RECURSIVE JoinText(_, _)
JoinText(texts, sep) ==
  IF texts = <<>> THEN <<"">>
  ELSE IF Len(texts) = 1 THEN texts[1]
  ELSE Cat(Cat(texts[1], sep), JoinText(Tail(texts), sep))

\* JSON.stringify(value); inside an array a function or undefined is null,
\* inside an object such a member is left out
RECURSIVE Stringify(_)
Stringify(value) ==
  LET Elem(v) == IF v[1] \in {"function", "undefined"} THEN "null" ELSE Stringify(v)
      Kept(ms) == SelectSeq(ms, LAMBDA m : m[2][1] \notin {"function", "undefined"})
  IN CASE value[1] = "number" -> ToString(value[2])
       [] value[1] = "string" -> "\"" \o value[2] \o "\""
       [] value[1] = "boolean" -> IF value[2] THEN "true" ELSE "false"
       [] value[1] = "null" -> "null"
       [] value[1] = "array" ->
            "[" \o JoinStr([i \in 1..Len(value[2]) |-> Elem(value[2][i])], ",") \o "]"
       [] value[1] = "object" ->
            "{" \o JoinStr([i \in 1..Len(Kept(value[2])) |->
                              "\"" \o Kept(value[2])[i][1] \o "\":"
                                \o Stringify(Kept(value[2])[i][2])], ",") \o "}"
       [] OTHER -> "undefined"

RECURSIVE printValue(_, _)
printObject(object) ==
  <<"{">>
    \o indent(JoinText([i \in 1..Len(object) |->
                LET key == object[i][1]
                    value == object[i][2]
                    type == getGCCType(value)
                IN Cat(printJsdoc(<<printTypeTag(type)>>),
                       Cat(<<key \o ": ">>, printValue(type, value)))],
              <<",", "", "">>))
    \o <<"}">>

printValue(type, value) ==
  CASE type = "Object" -> printObject(value[2])
    [] type \in {"number", "Function"} ->
         <<IF value[1] = "number" THEN ToString(value[2]) ELSE value[2]>>
    [] OTHER -> <<Stringify(value)>>

DefinesContent(def) ==
  JoinText([i \in 1..Len(def) |->
              LET topLevelKey == def[i][1]
                  value == def[i][2]
                  type == getGCCType(value)
              IN Cat(printJsdoc(<<printTypeTag(type)>>),
                     Cat(<<"export const " \o topLevelKey \o " = ">>,
                         Cat(printValue(type, value), <<";">>)))],
           <<"", "", "">>)

GenerateDefines(s) ==
  WriteFile(Logged(s, Event("call", "generateDefines", <<>>)),
            <<DefineJs>>, Text(DefinesContent(s.define)))

\* -------------------------------------------------------------- buildCode
\* buildCode() generating the extensions' code before the base application
BuildCodeExtensionsFirst(s) ==
  GenerateDefines(GenerateBaseApp(GenerateExtensionsCode(Clean(s))))

\* buildCode() without the clean() in front
BuildCodeNoClean(s) ==
  GenerateDefines(GenerateExtensionsCode(GenerateBaseApp(s)))

BuildCodeSteps(s) ==
  GenerateDefines(GenerateExtensionsCode(GenerateBaseApp(Clean(s))))

\* ------------------------------------------------------------------ inputs
Foo == Name("f", "oo", "")
Bar == Name("b", "ar", "")
BarJs == Name("b", "ar", ".js")
Sub == Name("s", "ub", "")
XJs == Name("x", "", ".js")

\* the file mappings an extension may supply (relative path -> content)
Mappings ==
  { << <<<<BarJs>>, Text("c1")>> >>,
    << <<<<BarJs>>, Text("c2")>>, <<<<Sub, XJs>>, Text("c1")>> >> }

\* entries found under the output root when the cache is constructed
OldJs == Name("o", "ld", ".js")
Stale == Name("s", "tale", "")
Keep == Name(".", "keep", "")
Git == Name(".", "git", "")
Head_ == Name("H", "EAD", "")

MixedDirs == {Root, Root \o <<Stale>>, Root \o <<Git>>}
MixedFiles ==
  [p \in {Root \o <<OldJs>>, Root \o <<Stale, XJs>>, Root \o <<Keep>>, Root \o <<Git, Head_>>}
     |-> Text("old")]
NoFiles == [p \in {} |-> Text("")]

InitialDisks ==
  { [dirs |-> {}, files |-> NoFiles],
    [dirs |-> {Root}, files |-> NoFiles],
    [dirs |-> MixedDirs, files |-> MixedFiles] }

ExampleDefine ==
  << <<"FOO", Num(1)>>, <<"BAR", Str("x")>>,
     <<"BAZ", Arr(<<Num(1), Str("a"), Null>>)>>,
     <<"EMPTY", Arr(<<>>)>>,
     <<"NESTED", Obj(<< <<"on", Bool(TRUE)>>, <<"list", Arr(<<>>)>> >>)>> >>

PlatformNames == {"pc", "tv", "web", "stb"}

\* every list of distinct platform names of at most n names
RECURSIVE PlatformLists(_)
PlatformLists(n) ==
  IF n = 0 THEN {<<>>}
  ELSE LET shorter == PlatformLists(n - 1) IN
    shorter \cup
    {Append(lx[1], lx[2]) :
       lx \in {pair \in {k \in shorter : Len(k) = n - 1} \X PlatformNames :
                 pair[2] \notin Range(pair[1])}}

\* ------------------------------------------------------------- operations
Op(name, ext) == [name |-> name, ext |-> ext]

\* the paths written since the last clean() call, after the events of lg
RECURSIVE WrittenAfter(_, _)
WrittenAfter(w, lg) ==
  IF lg = <<>> THEN w
  ELSE LET e == Head(lg) IN
    WrittenAfter(IF e.op = "call" /\ e.name = "clean" THEN {}
                 ELSE IF e.op = "writeFileSync" THEN w \cup {e.args[1]}
                 ELSE w,
                 Tail(lg))

\* the state after a method ran from Cur and left s
Do(op, s) ==
  /\ dirs' = s.dirs
  /\ files' = s.files
  /\ _files' = s.reg
  /\ log' = s.log
  /\ seen' = s.seen
  /\ lastOp' = op
  /\ written' = WrittenAfter(written, s.log)
  /\ platforms' = s.platforms
  /\ extensions' = s.extensions
  /\ define' = s.define
  /\ UNCHANGED readyVars

clean == Do(Op("clean", 0), Clean(Cur))

buildCode == Do(Op("buildCode", 0), BuildCodeSteps(Cur))

generateBaseApp == Do(Op("generateBaseApp", 0), GenerateBaseApp(Cur))

generateExtensionsCode == Do(Op("generateExtensionsCode", 0), GenerateExtensionsCode(Cur))

generateDefines == Do(Op("generateDefines", 0), GenerateDefines(Cur))

\* a listener that regenerates the code of every extension
OnGeneratedRebuild(s, i, sources) == GenerateExtensionsCode(s)

\* the EVENT_GENERATED listener of _setupExtensions, from its call to its return
OnGenerated(s, i, sources) ==
  Logged(WriteSources(Logged(s, Event("call", "onGenerated", <<i>>)),
                      ResolveAddonRelativeSources(s.extensions[i].name, sources)),
         Event("return", "onGenerated", <<i>>))

\* extension i regenerated its code: it emits EVENT_GENERATED with the new
\* sources, which are what its generateCode() yields from now on
extensionGenerated ==
  \E i \in 1..Len(extensions), sources \in Mappings :
    Do(Op("generated", i),
       OnGenerated([Cur EXCEPT !.extensions[i].sources = sources], i, sources))

\* extension i emits EVENT_GENERATED while an observer of "changed" is
\* registered that, told about path, makes extension j emit EVENT_GENERATED
extensionGeneratedObserved ==
  \E i \in 1..Len(extensions), sources \in Mappings :
    \E j \in 1..Len(extensions), reaction \in Mappings :
      \E k \in 1..Len(sources) :
        Do(Op("generatedObserved", i),
           OnGenerated([Cur EXCEPT
                          !.extensions[i].sources = sources,
                          !.observer = [armed |-> TRUE,
                                        path |-> Root \o <<extensions[i].name>> \o sources[k][1],
                                        ext |-> j, sources |-> reaction]],
                       i, sources))

\* the operations when the filesystem call after n successful ones throws;
\* with fewer calls than that the operation completes
buildCodeFaulty ==
  \E n \in 0..MaxFailAt :
    Do(Op("buildCode", 0), BuildCodeSteps([Cur EXCEPT !.failAt = n]))

cleanFaulty ==
  \E n \in 0..MaxFailAt :
    Do(Op("clean", 0), Clean([Cur EXCEPT !.failAt = n]))

\* -------------------------------------------------------------- readiness
Sources == 1..NumSources

\* the promise an aliased source's ready() returned is fulfilled
sourceFulfils(i) ==
  /\ sourceState[i] = "pending"
  /\ sourceState' = [sourceState EXCEPT ![i] = "fulfilled"]
  /\ UNCHANGED <<reacted, remaining, readyPromise, cacheVars, configVars, extensions>>

\* the promise an aliased source's ready() returned is rejected
sourceRejects(i) ==
  /\ sourceState[i] = "pending"
  /\ sourceState' = [sourceState EXCEPT ![i] = "rejected"]
  /\ UNCHANGED <<reacted, remaining, readyPromise, cacheVars, configVars, extensions>>

\* a join that waits for every element and ignores rejections
PromiseAllSettledReaction(state, i) ==
  [state EXCEPT
     !.remaining = @ - 1,
     !.readyPromise = IF state.remaining = 1 /\ @ = "pending" THEN "fulfilled" ELSE @]

\* Promise.all(fsReadyPromises): the reaction to the settlement of element i
PromiseAllReaction(state, i) ==
  IF state.sourceState[i] = "fulfilled"
  THEN [state EXCEPT
          !.remaining = @ - 1,
          !.readyPromise = IF state.remaining = 1 /\ @ = "pending" THEN "fulfilled" ELSE @]
  ELSE [state EXCEPT
          !.readyPromise = IF @ = "pending" THEN "rejected" ELSE @]

promiseAllReacts(i) ==
  /\ sourceState[i] # "pending"
  /\ ~reacted[i]
  /\ reacted' = [reacted EXCEPT ![i] = TRUE]
  /\ LET after == PromiseAllReaction(
                    [sourceState |-> sourceState, remaining |-> remaining,
                     readyPromise |-> readyPromise], i)
     IN /\ remaining' = after.remaining
        /\ readyPromise' = after.readyPromise
  /\ UNCHANGED <<sourceState, cacheVars, configVars, extensions>>

\* ------------------------------------------------------------ specification
\* the constructor: lines 30-75
InitReady ==
  /\ sourceState = [i \in Sources |-> "pending"]
  /\ reacted = [i \in Sources |-> FALSE]
  /\ remaining = NumSources
  /\ readyPromise = IF NumSources = 0 THEN "fulfilled" ELSE "pending"

InitCache(disk) ==
  /\ dirs = disk.dirs
  /\ files = disk.files
  /\ _files = <<>>
  /\ log = <<>>
  /\ seen = <<>>
  /\ lastOp = Op("constructor", 0)
  /\ written = {}

Init ==
  /\ \E disk \in InitialDisks : InitCache(disk)
  /\ platforms \in {<<"tv", "pc", "web">>}
  /\ extensions = << [name |-> Foo, sources |-> << <<<<BarJs>>, Text("c1")>> >>],
                     [name |-> Bar, sources |-> << <<<<BarJs>>, Text("c1")>> >>] >>
  /\ define = ExampleDefine
  /\ InitReady

Next ==
  \/ clean
  \/ buildCode
  \/ generateBaseApp
  \/ generateExtensionsCode
  \/ generateDefines
  \/ extensionGenerated

Spec == Init /\ [][Next]_vars

\* the readiness join of the constructor, next to clean(), buildCode() and
\* the extensions' notifications, none of which reads this._readyPromise
ReadyInit ==
  /\ InitCache([dirs |-> {}, files |-> NoFiles])
  /\ platforms = <<"tv", "pc", "web">>
  /\ extensions = << [name |-> Foo, sources |-> << <<<<BarJs>>, Text("c1")>> >>] >>
  /\ define = ExampleDefine
  /\ InitReady

ReadyNext ==
  \/ \E i \in Sources : sourceFulfils(i)
  \/ \E i \in Sources : sourceRejects(i)
  \/ \E i \in Sources : promiseAllReacts(i)
  \/ clean
  \/ buildCode
  \/ extensionGenerated

ReadySpec == ReadyInit /\ [][ReadyNext]_vars

\* bootstrap generation over every platform list
PlatformInit ==
  /\ InitCache([dirs |-> {}, files |-> NoFiles])
  /\ platforms \in PlatformLists(MaxPlatforms)
  /\ extensions = <<>>
  /\ define = <<>>
  /\ InitReady

PlatformNext ==
  \/ generateBaseApp
  \/ buildCode
  \/ clean

PlatformSpec == PlatformInit /\ [][PlatformNext]_vars

\* define values: primitives, a function, arrays of them, structs
DefinePrimitives ==
  {Num(1), Num(2), Str("a"), Bool(TRUE), Null, Fn("function () {}")}

DefineElements == DefinePrimitives \cup {Arr(<<>>), Arr(<<Num(1)>>), Obj(<<>>)}

DefineArrays(n) == {Arr(a) : a \in UNION {[1..k -> DefineElements] : k \in 0..n}}

DefineStructs ==
  {Obj(<<>>)} \cup
  {Obj(<< <<"list", v>> >>) : v \in {Arr(<<>>), Num(1), Arr(<<Num(1), Str("a")>>)}}

\* the array [1, "a", null]
MixedArray == Arr(<<Num(1), Str("a"), Null>>)

DefineValues ==
  DefinePrimitives \cup DefineArrays(MaxArrayLen) \cup DefineStructs \cup {MixedArray}

\* generateDefines() over every define value
DefineInit ==
  /\ InitCache([dirs |-> {}, files |-> NoFiles])
  /\ platforms = <<>>
  /\ extensions = <<>>
  /\ define \in {<< <<"KEY", v>> >> : v \in DefineValues}
  /\ InitReady

DefineNext ==
  \/ generateDefines
  \/ clean

DefineSpec == DefineInit /\ [][DefineNext]_vars

\* extensions whose namespaced paths coincide: foo reaches into bar's
\* directory, or two extensions are both named foo
CollidingExtensions ==
  { << [name |-> Foo, sources |-> << <<<<DOTDOT, Bar, BarJs>>, Text("c2")>> >>],
       [name |-> Bar, sources |-> << <<<<BarJs>>, Text("c1")>> >>] >>,
    << [name |-> Foo, sources |-> << <<<<BarJs>>, Text("c1")>> >>],
       [name |-> Foo, sources |-> << <<<<BarJs>>, Text("c2")>>, <<<<Sub, XJs>>, Text("c1")>> >>] >> }

CollisionInit ==
  /\ \E disk \in InitialDisks : InitCache(disk)
  /\ platforms = <<"pc">>
  /\ extensions \in CollidingExtensions
  /\ define = <<>>
  /\ InitReady

CollisionNext ==
  \/ buildCode
  \/ generateExtensionsCode
  \/ clean
  \/ extensionGenerated

CollisionSpec == CollisionInit /\ [][CollisionNext]_vars

\* passes in which a filesystem call may throw
FailNext ==
  \/ buildCodeFaulty
  \/ cleanFaulty
  \/ extensionGenerated

FailSpec == Init /\ [][FailNext]_vars

\* change notifications with and without a reacting observer
ReentrantNext ==
  \/ extensionGenerated
  \/ extensionGeneratedObserved
  \/ clean

ReentrantSpec == Init /\ [][ReentrantNext]_vars

\* the reactions of Promise.all are promise jobs: the engine runs every one
ReadyFairSpec ==
  ReadySpec /\ \A i \in Sources : WF_vars(promiseAllReacts(i))

\* ================================================================== claims
Writes(lg) == {i \in 1..Len(lg) : lg[i].op = "writeFileSync"}
Removals(lg) == {i \in 1..Len(lg) : lg[i].op \in {"unlinkSync", "removeSync"}}
Emits(lg) == {i \in 1..Len(lg) : lg[i].op = "emit"}
Calls(lg) == SelectSeq(lg, LAMBDA e : e.op = "call")
WrittenPaths(lg) == {lg[i].args[1] : i \in Writes(lg)}
Cleaned(lg) == \E i \in 1..Len(lg) : lg[i].op = "call" /\ lg[i].name = "clean"
UnderRoot(p) == Len(p) > Len(Root) /\ SubSeq(p, 1, Len(Root)) = Root
TopName(p) == p[Len(Root) + 1]

C1_RegistryState ==
  /\ \A i, j \in 1..Len(_files) : _files[i] = _files[j] => i = j
  /\ Range(_files) = written
  /\ Len(_files) = Cardinality(written)

C1_RegistryStep ==
  ~Cleaned(log') =>
    /\ IsPrefix(_files, _files')
    /\ Len(_files') = Len(_files) + Cardinality(WrittenPaths(log') \ Range(_files))

\* C1: the registry holds no path twice and exactly the distinct paths written
\* since the last clean(); an operation without clean() only appends the paths
\* that were not registered, so writing a registered path leaves it unchanged
C1_Registry == [](C1_RegistryState) /\ [][C1_RegistryStep]_vars

\* a notification rewrote the oldest registered path and the registry holds
\* more paths than the notification wrote
C1_Witness ==
  /\ lastOp.name = "generated"
  /\ _files # <<>>
  /\ _files[1] \in WrittenPaths(log)
  /\ Len(_files) > Cardinality(Writes(log))

C2_CleanStep ==
  (lastOp'.name = "clean" /\ Root \in dirs) =>
    /\ \A p \in dirs' \cup DOMAIN files' : UnderRoot(p) => TopName(p)[1] = "."
    /\ \A p \in DOMAIN files :
         (UnderRoot(p) /\ TopName(p)[1] = ".") =>
           p \in DOMAIN files' /\ files'[p] = files[p]
    /\ \A d \in dirs : (UnderRoot(d) /\ TopName(d)[1] = ".") => d \in dirs'
    /\ Root \in dirs'

\* C2: clean() on an existing root removes every visible top-level entry, file
\* or directory tree, and keeps every hidden entry with its content
C2_CleanKeepsHidden == [][C2_CleanStep]_vars

\* clean() removed a visible file and a visible directory tree and kept the
\* hidden file and the hidden directory
C2_Witness ==
  /\ lastOp.name = "clean"
  /\ \E i \in Removals(log) : log[i].op = "unlinkSync" /\ log[i].args[1] = Root \o <<OldJs>>
  /\ \E i \in Removals(log) : log[i].op = "removeSync" /\ log[i].args[1] = Root \o <<Stale>>
  /\ Root \o <<Keep>> \in DOMAIN files
  /\ Root \o <<Git, Head_>> \in DOMAIN files

BasePaths == {Root \o <<BaseApplicationJs>>, Root \o <<AppJs>>, Root \o <<PackageInfoJs>>}
DefinePath == Root \o <<DefineJs>>

\* C3: buildCode() runs clean(), generateBaseApp(), generateExtensionsCode(),
\* generateDefines() in this order: removals precede every write, the three
\* base files are written first, define.js last, extension files in between
C3_BuildOrder ==
  lastOp.name = "buildCode" =>
    /\ [i \in 1..Len(Calls(log)) |-> Calls(log)[i].name] =
         <<"clean", "generateBaseApp", "generateExtensionsCode", "generateDefines">>
    /\ \A r \in Removals(log), w \in Writes(log) : r < w
    /\ \A b \in BasePaths : Cardinality({i \in Writes(log) : log[i].args[1] = b}) = 1
    /\ Cardinality({i \in Writes(log) : log[i].args[1] = DefinePath}) = 1
    /\ \A i, j \in Writes(log) :
         (log[i].args[1] \in BasePaths /\ log[j].args[1] \notin BasePaths) => i < j
    /\ \A i, j \in Writes(log) :
         (log[i].args[1] # DefinePath /\ log[j].args[1] = DefinePath) => i < j
    /\ \A i, j \in Writes(log) :
         (log[i].args[1] = Root \o <<BaseApplicationJs>> /\ log[j].args[1] = Root \o <<AppJs>>)
           \/ (log[i].args[1] = Root \o <<AppJs>> /\ log[j].args[1] = Root \o <<PackageInfoJs>>)
           => i < j

\* a buildCode() that removed old entries and wrote extension files
C3_Witness ==
  /\ lastOp.name = "buildCode"
  /\ Removals(log) # {}
  /\ \E i \in Writes(log) : log[i].args[1] \notin BasePaths \cup {DefinePath}

\* C4: every write is followed at once by one "changed" emit and then one
\* generic emit, both with the written path; no emit happens without its write
C4_WriteNotifies ==
  /\ \A i \in Writes(log) :
       /\ i + 2 <= Len(log)
       /\ log[i + 1] = Event("emit", EVENT_CHANGED, <<log[i].args[1]>>)
       /\ log[i + 2] = Event("emit", EVENT_ANY, <<EVENT_CHANGED, log[i].args[1]>>)
  /\ \A j \in Emits(log) :
       \/ /\ log[j].name = EVENT_CHANGED
          /\ j - 1 \in Writes(log)
       \/ /\ log[j].name = EVENT_ANY
          /\ j - 2 \in Writes(log)
  /\ Cardinality(Emits(log)) = 2 * Cardinality(Writes(log))

\* an operation that wrote several files
C4_Witness ==
  /\ Cardinality(Writes(log)) >= 2
  /\ Cardinality(Emits(log)) >= 4

C5_RebuildStep ==
  (lastOp.name = "buildCode" /\ lastOp'.name = "buildCode") =>
    /\ \A p \in BasePaths \cup {DefinePath} :
         p \in DOMAIN files /\ p \in DOMAIN files' /\ files'[p] = files[p]
    /\ Range(_files') = Range(_files)

\* C5: a buildCode() that directly follows a buildCode(), nothing changed in
\* between, leaves base-application.js, app.js, package-info.js and define.js
\* with the same contents and the registry with the same set of paths
C5_RebuildSame == [][C5_RebuildStep]_vars

\* a buildCode() that found and removed exactly the output of a build: the
\* four base files and the extensions' directories
C5_Witness ==
  /\ lastOp.name = "buildCode"
  /\ {log[i].args[1] : i \in Removals(log)} =
       BasePaths \cup {DefinePath, Root \o <<Foo>>, Root \o <<Bar>>}
  /\ Range(_files) = WrittenPaths(log)

C6_CleanMissingRootStep ==
  (lastOp'.name = "clean" /\ Root \notin dirs) =>
    /\ dirs' = dirs
    /\ files' = files
    /\ \A i \in 1..Len(log') : log'[i].op = "call"

\* C6: clean() with no output root creates nothing, deletes nothing and emits
\* nothing
C6_CleanMissingRoot == [][C6_CleanMissingRootStep]_vars

\* clean() returned and there is still no output root
C6_Witness ==
  /\ lastOp.name = "clean"
  /\ Root \notin dirs
  /\ log = <<Event("call", "clean", <<>>)>>

OthersThenPc(names) ==
  SelectSeq(names, LAMBDA n : n # "pc")
    \o (IF \E i \in 1..Len(names) : names[i] = "pc" THEN <<"pc">> ELSE <<>>)

\* C8: the platform list of the bootstrap file is the platform list with "pc"
\* moved to the end and the other names in their order
C8_PcLast ==
  Root \o <<BaseApplicationJs>> \in DOMAIN files =>
    files[Root \o <<BaseApplicationJs>>] =
      <<BaseApplicationTpl, [platforms |-> OthersThenPc(platforms)]>>

\* [A, B, pc, C] was rendered as [A, B, C, pc]
C8_Witness ==
  /\ platforms = <<"tv", "web", "pc", "stb">>
  /\ Root \o <<BaseApplicationJs>> \in DOMAIN files
  /\ files[Root \o <<BaseApplicationJs>>][2].platforms = <<"tv", "web", "stb", "pc">>

RECURSIVE Flatten(_)
Flatten(seqs) == IF seqs = <<>> THEN <<>> ELSE Head(seqs) \o Flatten(Tail(seqs))

ExpectedExtensionWrites ==
  Flatten([e \in 1..Len(extensions) |->
             [k \in 1..Len(extensions[e].sources) |->
                <<Root \o <<extensions[e].name>> \o extensions[e].sources[k][1],
                  extensions[e].sources[k][2]>>]])

\* C9: generateExtensionsCode() writes, for every extension and every pair of
\* its mapping, that content at <name>/<relative path> under the root, each
\* once, in the extensions' order, and writes nothing else
C9_ExtensionFiles ==
  lastOp.name = "generateExtensionsCode" =>
    /\ SelectSeq(log, LAMBDA e : e.op = "writeFileSync") =
         [k \in 1..Len(ExpectedExtensionWrites) |->
            Event("writeFileSync", "fs", ExpectedExtensionWrites[k])]
    /\ \A k \in 1..Len(ExpectedExtensionWrites) :
         /\ ExpectedExtensionWrites[k][1] \in DOMAIN files
         /\ files[ExpectedExtensionWrites[k][1]] = ExpectedExtensionWrites[k][2]
    /\ Removals(log) = {}

\* extension foo supplied bar.js and sub/x.js: foo/bar.js and foo/sub/x.js
\* were written under the root
C9_Witness ==
  /\ lastOp.name = "generateExtensionsCode"
  /\ extensions[1].name = Foo
  /\ Len(extensions[1].sources) = 2
  /\ {Root \o <<Foo, BarJs>>, Root \o <<Foo, Sub, XJs>>} \subseteq WrittenPaths(log)
  /\ files[Root \o <<Foo, BarJs>>] = Text("c2")

C10_JoinState ==
  /\ readyPromise = "fulfilled" => \A i \in Sources : sourceState[i] = "fulfilled"
  /\ readyPromise = "rejected" => \E i \in Sources : sourceState[i] = "rejected"
  /\ \A i \in Sources :
       (sourceState[i] = "rejected" /\ reacted[i]) => readyPromise = "rejected"
  /\ ((\E i \in Sources : sourceState[i] = "pending")
        /\ (\A i \in Sources : sourceState[i] # "rejected"))
       => readyPromise = "pending"

\* C10: the aggregate readiness is fulfilled only when every source's ready()
\* is fulfilled, is rejected only when one is rejected, is rejected at the
\* reaction to the first rejection whatever the other sources do, and stays
\* pending while some source is pending and none is rejected; a rejection
\* always leads to the aggregate's rejection
C10_ReadinessJoin ==
  /\ [](C10_JoinState)
  /\ (\E i \in Sources : sourceState[i] = "rejected") ~> (readyPromise = "rejected")
  /\ (\A i \in Sources : sourceState[i] = "fulfilled") ~> (readyPromise = "fulfilled")

\* the aggregate is rejected while another source is still pending
C10_Witness ==
  /\ readyPromise = "rejected"
  /\ \E i \in Sources : sourceState[i] = "pending"
  /\ \E i \in Sources : sourceState[i] = "fulfilled" /\ reacted[i]

\* C11: nothing is removed from the output root and no file is written
\* before the aggregate readiness signal has completed: when the last
\* operation removed or wrote something, the aggregate is fulfilled
C11_GatedOnReadiness ==
  (Writes(log) \cup Removals(log) # {}) => readyPromise = "fulfilled"

\* every ordering of the elements of a finite set
RECURSIVE Orderings(_)
Orderings(S) ==
  IF S = {} THEN {<<>>}
  ELSE UNION {{<<x>> \o o : o \in Orderings(S \ {x})} : x \in S}

\* the tags the type table allows for a value: for an array, the element
\* tags as a set, joined in any order
RECURSIVE AllowedTags(_)
AllowedTags(value) ==
  CASE value[1] = "function" -> {"Function"}
    [] value[1] = "null" -> {"null"}
    [] value[1] = "object" -> {"Object"}
    [] value[1] = "array" ->
         IF value[2] = <<>> THEN {"Array<*>"}
         ELSE LET n == Len(value[2])
                  all == UNION {AllowedTags(value[2][i]) : i \in 1..n}
                  picks == {f \in [1..n -> all] :
                              \A i \in 1..n : f[i] \in AllowedTags(value[2][i])}
              IN UNION {{"Array<" \o JoinStr(o, "|") \o ">" :
                           o \in Orderings({f[i] : i \in 1..n})} : f \in picks}
    [] OTHER -> {value[1]}

TagLine(tag) ==
  IF tag = "Object" THEN " * @struct" ELSE " * @const {" \o tag \o "}"

\* C12: the inferred tag of every define value is the one of the type table,
\* an array's being Array<T> with T the union of its element tags, each once,
\* in some order; it is the tag generateDefines() writes into define.js
C12_TypeTags ==
  \A k \in 1..Len(define) :
    /\ getGCCType(define[k][2]) \in AllowedTags(define[k][2])
    /\ (lastOp.name = "generateDefines" /\ Len(define) = 1) =>
         /\ DefinePath \in DOMAIN files
         /\ files[DefinePath][2][2] \in {TagLine(tag) : tag \in AllowedTags(define[k][2])}

\* [1, "a", null] was written with the tag Array<number|string|null>
C12_Witness ==
  /\ lastOp.name = "generateDefines"
  /\ define[1][2] = MixedArray
  /\ files[DefinePath][2][2] = " * @const {Array<number|string|null>}"

\* C13: an empty array, at top level or as a member of a struct, is written
\* with the tag Array<*> and the literal []
C13_EmptyArray ==
  lastOp.name = "generateDefines" =>
    /\ define = << <<"KEY", Arr(<<>>)>> >> =>
         files[DefinePath] =
           Text(<<"/**", " * @const {Array<*>}", " */", "export const KEY = [];">>)
    /\ define = << <<"KEY", Obj(<< <<"list", Arr(<<>>)>> >>)>> >> =>
         files[DefinePath] =
           Text(<<"/**", " * @struct", " */", "export const KEY = {",
                  "\t/**", "\t * @const {Array<*>}", "\t */", "\tlist: []", "};">>)

\* define.js was written for a struct with an empty-array member
C13_Witness ==
  /\ lastOp.name = "generateDefines"
  /\ define = << <<"KEY", Obj(<< <<"list", Arr(<<>>)>> >>)>> >>
  /\ DefinePath \in DOMAIN files

\* the paths of extension i's current mapping, under its name in the root
MappingPaths(exts, i) ==
  {Root \o <<exts[i].name>> \o exts[i].sources[k][1] : k \in 1..Len(exts[i].sources)}

C14_NotificationStep ==
  lastOp'.name = "generated" =>
    LET i == lastOp'.ext
        mapping == extensions'[i].sources
        targets == MappingPaths(extensions', i)
    IN /\ WrittenPaths(log') = targets
       /\ \A k \in 1..Len(mapping) :
            files'[Root \o <<extensions'[i].name>> \o mapping[k][1]] = mapping[k][2]
       /\ Removals(log') = {}
       /\ ~Cleaned(log')
       /\ IsPrefix(_files, _files')
       /\ DOMAIN files' = DOMAIN files \cup targets
       /\ \A p \in DOMAIN files \ targets : files'[p] = files[p]
       /\ dirs \subseteq dirs'

\* C14: an extension's change notification writes exactly the files of the
\* mapping it carries, under the extension's name; nothing is cleaned or
\* removed, the registry keeps its entries, and every other file keeps its
\* content
C14_NotificationFrame == [][C14_NotificationStep]_vars

\* after a build, extension foo announced a mapping without sub/x.js:
\* foo/sub/x.js, left by foo's earlier mapping, and the base files are still
\* there
C14_Witness ==
  /\ lastOp.name = "generated"
  /\ lastOp.ext = 1
  /\ Len(extensions[1].sources) = 1
  /\ Root \o <<Foo, Sub, XJs>> \in DOMAIN files \ WrittenPaths(log)
  /\ Root \o <<Foo, Sub, XJs>> \in Range(_files)
  /\ BasePaths \cup {DefinePath} \subseteq DOMAIN files

\* the batches of the last operation: the positions where a listener of
\* EVENT_GENERATED was entered
Batches(lg) == {a \in 1..Len(lg) : lg[a].op = "call" /\ lg[a].name = "onGenerated"}

\* C15: write batches of change notifications never overlap: a batch that
\* started has written and notified all its files, and returned, before the
\* next batch starts
C15_NoOverlap ==
  \A a, b \in Batches(log) :
    a < b => \E r \in (a + 1)..(b - 1) :
               log[r].op = "return" /\ log[r].name = "onGenerated"

\* the positions of the last operation's writes to path p
WritesTo(lg, p) == {w \in Writes(lg) : lg[w].args[1] = p}

\* C16: when a path is written more than once in a pass, the last write
\* wins: the file holds the later content, the registry holds the path once,
\* nothing is thrown and no other event is emitted, and every one of the
\* writes has its own pair of notifications
C16_LastWriteWins ==
  \A p \in WrittenPaths(log) :
    Cardinality(WritesTo(log, p)) > 1 =>
      LET last == CHOOSE w \in WritesTo(log, p) : \A v \in WritesTo(log, p) : v <= w IN
        /\ p \in DOMAIN files
        /\ files[p] = log[last].args[2]
        /\ Cardinality({k \in 1..Len(_files) : _files[k] = p}) = 1
        /\ \A k \in 1..Len(log) : log[k].op # "throw"
        /\ \A k \in Emits(log) : log[k].name \in {EVENT_CHANGED, EVENT_ANY}
        /\ \A w \in WritesTo(log, p) :
             /\ w + 2 <= Len(log)
             /\ log[w + 1] = Event("emit", EVENT_CHANGED, <<p>>)
             /\ log[w + 2] = Event("emit", EVENT_ANY, <<EVENT_CHANGED, p>>)

\* a build wrote bar/bar.js twice, for foo with c2 and then for bar with c1
C16_Witness ==
  /\ lastOp.name = "buildCode"
  /\ \E a, b \in WritesTo(log, Root \o <<Bar, BarJs>>) :
       /\ a < b
       /\ log[a].args[2] = Text("c2")
       /\ log[b].args[2] = Text("c1")
  /\ files[Root \o <<Bar, BarJs>>] = Text("c1")

\* the last operation ended with a throw of one of the filesystem calls ops
ThrewIn(lg, ops) ==
  \E k \in 1..Len(lg) : lg[k].op = "throw" /\ lg[k].name \in ops

BuildCalls ==
  <<Event("call", "clean", <<>>), Event("call", "generateBaseApp", <<>>),
    Event("call", "generateExtensionsCode", <<>>), Event("call", "generateDefines", <<>>)>>

\* C17: when a write inside buildCode() throws, the pass stops there: the
\* throw is the last thing that happens, so the failing path is neither
\* registered nor notified and no later file or step follows; the steps begun
\* are a proper prefix of the build order, and every file written before is
\* on disk with its content, notified and in the registry
C17_WriteErrorAborts ==
  (lastOp.name = "buildCode" /\ ThrewIn(log, {"writeFileSync", "ensureDirSync"})) =>
    /\ Last(log).op = "throw"
    /\ \A k \in 1..(Len(log) - 1) : log[k].op # "throw"
    /\ Range(_files) = WrittenPaths(log)
    /\ \A w \in Writes(log) :
         /\ log[w].args[1] \in DOMAIN files
         /\ files[log[w].args[1]] = log[w].args[2]
         /\ log[w + 1] = Event("emit", EVENT_CHANGED, <<log[w].args[1]>>)
         /\ log[w + 2] = Event("emit", EVENT_ANY, <<EVENT_CHANGED, log[w].args[1]>>)
    /\ Cardinality(Emits(log)) = 2 * Cardinality(Writes(log))
    /\ IsPrefix(Calls(log), BuildCalls)
    /\ (Last(log).name = "writeFileSync" =>
          /\ Last(log).args[1] \notin Range(_files)
          /\ Last(log).args[1] \notin WrittenPaths(log))
    /\ DefinePath \notin DOMAIN files

\* a build failed writing app.js: base-application.js is on disk and in the
\* registry, app.js is not, and nothing of the extensions was written
C17_Witness ==
  /\ lastOp.name = "buildCode"
  /\ Last(log) = Event("throw", "writeFileSync",
                       <<Root \o <<AppJs>>, Render(AppTpl, [path |-> StripJs(MainPath)])>>)
  /\ _files = <<Root \o <<BaseApplicationJs>>>>
  /\ Root \o <<BaseApplicationJs>> \in DOMAIN files
  /\ Root \o <<AppJs>> \notin DOMAIN files

\* the position in lg of its k-th emit
EmitAt(lg, k) ==
  CHOOSE i \in Emits(lg) : Cardinality({j \in Emits(lg) : j <= i}) = k

\* C18: when an observer receives the "changed" or the wrapper notification
\* for a path, the path is in the registry and the file is on disk with the
\* content of the write that the notification follows
C18_WriteBeforeNotify ==
  /\ Len(seen) = Cardinality(Emits(log))
  /\ \A k \in 1..Len(seen) :
       LET e == EmitAt(log, k)
           p == seen[k].path
           before == {w \in WritesTo(log, p) : w < e}
       IN /\ seen[k].event = log[e].name
          /\ p = Last(log[e].args)
          /\ before # {}
          /\ seen[k].content =
               <<log[CHOOSE w \in before : \A v \in before : v <= w].args[2]>>
          /\ seen[k].registered

\* a notification listener of foo found generated/foo/bar.js holding c2,
\* after an earlier mapping had put c1 there
C18_Witness ==
  /\ lastOp.name = "generated"
  /\ \E k \in 1..Len(seen) :
       /\ seen[k].event = EVENT_CHANGED
       /\ seen[k].path = Root \o <<Foo, BarJs>>
       /\ seen[k].content = <<Text("c2")>>
       /\ seen[k].registered
  /\ \E k \in 1..Len(seen) :
       /\ seen[k].event = EVENT_ANY
       /\ seen[k].path = Root \o <<Foo, Sub, XJs>>
       /\ seen[k].content = <<Text("c1")>>

\* the proper ancestors of p below the root
DirsOf(p) == {SubSeq(p, 1, n) : n \in (Len(Root) + 1)..(Len(p) - 1)}

Visible(p) == UnderRoot(p) /\ ~IsHidden(TopName(p))

\* what a build produces from the current configuration
BuildOutput ==
  BasePaths \cup {DefinePath} \cup
  UNION {MappingPaths(extensions, i) : i \in 1..Len(extensions)}

\* C19: after a completed buildCode() the visible files under the root are
\* the base files, define.js and the extensions' namespaced files, with the
\* extensions' current contents, whatever was there before; the registry is
\* exactly that set
C19_BuildResult ==
  lastOp.name = "buildCode" =>
    /\ {p \in DOMAIN files : Visible(p)} = BuildOutput
    /\ {d \in dirs : Visible(d)} = UNION {DirsOf(p) : p \in BuildOutput}
    /\ Range(_files) = BuildOutput
    /\ Len(_files) = Cardinality(BuildOutput)
    /\ \A i \in 1..Len(extensions) : \A k \in 1..Len(extensions[i].sources) :
         files[Root \o <<extensions[i].name>> \o extensions[i].sources[k][1]] =
           extensions[i].sources[k][2]
    /\ files[DefinePath] = Text(DefinesContent(define))

\* a build found old.js and the extensions' directories of earlier
\* notifications and removed them; bar supplies bar.js only and bar/sub is
\* not there
C19_Witness ==
  /\ lastOp.name = "buildCode"
  /\ \E r \in Removals(log) : log[r].args = <<Root \o <<OldJs>>>>
  /\ \E r \in Removals(log) : log[r].args = <<Root \o <<Bar>>>>
  /\ Len(extensions[2].sources) = 1
  /\ Root \o <<OldJs>> \notin DOMAIN files
  /\ Root \o <<Bar, Sub>> \notin dirs
  /\ Root \o <<Keep>> \in DOMAIN files

\* C20: every path in the registry lies under the root and names a file on
\* disk, also after a pass that a filesystem error aborted
C20_RegistryOnDisk ==
  \A p \in Range(_files) : UnderRoot(p) /\ p \in DOMAIN files

====
